---- MODULE Spec2Model ----
(***************************************************************************)
(* A model of coardas: the assimilation of dekadal CGLS products into one  *)
(* aligned raster time series.                                             *)
(*                                                                         *)
(*   - Dekad / Slice arithmetic           (objects/timeslicing.py)         *)
(*   - AOI alignment and AOI equality     (cgls/translator.py)             *)
(*   - the coarsening resample            (cgls/translator.py)             *)
(*   - translator factory                 (cgls/product.py)                *)
(*   - CGLSProductAccessor.download       (cgls/accessor.py)               *)
(*   - CGLSProductAssimilator.prepare and .ingest, driven by the command   *)
(*     line entry point                   (cgls/accessor.py, ingest.py)    *)
(*                                                                         *)
(* Coordinates are integers counting units of 1/672000000 degree: half a   *)
(* pixel of the 112 and of the 336 pixels-per-degree grid is a whole       *)
(* number of units, so pixel centres are exact, and rounding to 8 decimals *)
(* or to whole degrees is integer arithmetic.                              *)
(***************************************************************************)
EXTENDS Integers, Sequences, FiniteSets, TLC

VARIABLES
    \* ---- the command line of one installation (fixed by Init) ----
    products,           \* CGLSProductAssimilator.__products, in registration order
    target_resolution,  \* "1km" or "300m"
    target_aoi,         \* <<UL lon, UL lat, LR lon, LR lat>> in units
    naming_pattern,     \* the --naming option
    begin_date,
    end_date,
    \* ---- the file system, kept from one run to the next ----
    output_dir,         \* the set of paths that exist in the output directory
    \* ---- one run of the program ----
    pc,                 \* "idle", "search", "reconcile", "prepared", "ingest", "ended"
    run,                \* number of runs started so far
    cursor,             \* the Dekad cursor of the loop pc names
    product_first_hit,  \* the dict of prepare, as a sequence in insertion order
    translators,        \* the list of prepare
    aligned_aoi,        \* CGLSProductAssimilator.__aligned_aoi, or None
    result,             \* how the run ended, "running" before it has
    error,              \* the exception that ended the run, or None
    \* ---- history of the current run (what an observer would have logged) ----
    walked,             \* the dekads the first-hit search examined, in order
    steps,              \* what ingest did at each dekad it reached, in order
    \* ---- the resampling transform, exercised on its own (SpecCoarsen) ----
    block,              \* the input pixels of the resample
    coarse,             \* the output pixels, or None before the transform ran
    \* ---- the pure functions, called on their own (SpecDekad, SpecAoi,
    \* ---- SpecTranslator) ----
    args,               \* the arguments of the calls
    returned,           \* what the calls made so far returned, in order
    \* ---- CGLSProductAccessor.download on its own (SpecDownload) ----
    files,              \* what each path holds: nothing, a part, or all of the data
    subdirs,            \* the directories that have the dated subdirectory of the data file
    at                  \* where download is: a line of accessor.py, or how it ended

vars == <<products, target_resolution, target_aoi, naming_pattern, begin_date,
          end_date, output_dir, pc, run, cursor, product_first_hit,
          translators, aligned_aoi, result, error, walked, steps,
          block, coarse, args, returned, files, subdirs, at>>

\* Python's None, and a raised exception: tuples, like every AOI, so that a
\* result can be compared with them
None == <<>>

Exception(name) == <<"Exception", name>>

(***************************************************************************)
(* Arithmetic helpers: Python's abs, min, round (half to even) and // .    *)
(***************************************************************************)
Abs(x) == IF x < 0 THEN -x ELSE x

Min2(a, b) == IF a <= b THEN a ELSE b

\* round(n / d) for d > 0: the nearest integer, an exact half going to the
\* even neighbour (Python's round and numpy's rint).
RoundHalfEven(n, d) ==
    LET q == n \div d
        r == n % d
    IN  IF 2 * r < d THEN q
        ELSE IF 2 * r > d THEN q + 1
        ELSE IF q % 2 = 0 THEN q ELSE q + 1

(***************************************************************************)
(* datetime: the calendar fields and the second of the day.                *)
(***************************************************************************)
IsLeap(y) == (y % 4 = 0) /\ ((y % 100 # 0) \/ (y % 400 = 0))

DaysInMonth(y, m) ==
    IF m = 2 THEN (IF IsLeap(y) THEN 29 ELSE 28)
    ELSE IF m \in {4, 6, 9, 11} THEN 30 ELSE 31

datetime(y, m, d) == [year |-> y, month |-> m, day |-> d, second |-> 0]

\* dt - relativedelta(seconds=1)
MinusOneSecond(dt) ==
    IF dt.second > 0 THEN [dt EXCEPT !.second = dt.second - 1]
    ELSE IF dt.day > 1 THEN [dt EXCEPT !.day = dt.day - 1, !.second = 86399]
    ELSE IF dt.month > 1
         THEN [dt EXCEPT !.month = dt.month - 1,
                         !.day = DaysInMonth(dt.year, dt.month - 1),
                         !.second = 86399]
         ELSE [year |-> dt.year - 1, month |-> 12, day |-> 31, second |-> 86399]

\* a > b on datetimes
DtGreater(a, b) ==
    \/ a.year > b.year
    \/ a.year = b.year /\ a.month > b.month
    \/ a.year = b.year /\ a.month = b.month /\ a.day > b.day
    \/ a.year = b.year /\ a.month = b.month /\ a.day = b.day /\ a.second > b.second

(***************************************************************************)
(* Dekad (a Slice): a year and a sequence number within the year.          *)
(***************************************************************************)
slice_count == 36

Dekad(y, s) == [year |-> y, seqno |-> s]

\* a variant without the cap min(2, ...): days 31 fall in a fourth dekad
DekadFromDate_uncapped(dt) ==
    Dekad(dt.year, ((dt.month - 1) * 3) + (((dt.day - 1) \div 10) + 1))

\* Dekad(date)
DekadFromDate(dt) ==
    Dekad(dt.year, ((dt.month - 1) * 3) + (Min2(2, (dt.day - 1) \div 10) + 1))

\* a variant that forgets that seqno counts from 1
month_from_zero(d) == (d.seqno \div 3) + 1

month(d) == ((d.seqno - 1) \div 3) + 1

day(d) == (((d.seqno - 1) % 3) * 10) + 1

\* a variant without the case of a flat index that is a multiple of 36
add_no_wrap(d, diff) ==
    LET dekads == (d.year * 36) + d.seqno + diff
    IN  Dekad(dekads \div 36, dekads % 36)

\* a variant that keeps the year of the flat index for dekad 36
add_without_borrow(d, diff) ==
    LET dekads == (d.year * 36) + d.seqno + diff
    IN  IF (dekads % 36) = 0
        THEN Dekad(dekads \div 36, 36)
        ELSE Dekad(dekads \div 36, dekads % 36)

add(d, diff) ==
    LET dekads == (d.year * 36) + d.seqno + diff
    IN  IF (dekads % 36) = 0
        THEN Dekad((dekads \div 36) - 1, 36)
        ELSE Dekad(dekads \div 36, dekads % 36)

next(d) == add(d, 1)

\* a variant that starts every slice at mid-month
get_slice_start_mid_month(d) == datetime(d.year, month(d), 15)

get_slice_start(d) == datetime(d.year, month(d), day(d))

get_slice_end(d) == MinusOneSecond(get_slice_start(next(d)))

\* self.ends_after(other), other a Slice
\* a variant that also stops at a slice ending with the other
ends_after_or_with(d, other) == ~DtGreater(get_slice_end(other), get_slice_end(d))

ends_after(d, other) == DtGreater(get_slice_end(d), get_slice_end(other))

\* a variant that compares the sequence numbers only
greater_than_by_seqno(d, other) == d.seqno > other.seqno

greater_than(d, other) ==
    \/ d.year > other.year
    \/ d.year = other.year /\ d.seqno > other.seqno

\* Slice.equals: the second comparison is with otherSlice.year
equals(d, other) == d.year = other.year /\ d.seqno = other.year

\* a variant that forgets the years
diff_within_year(d, other) == d.seqno - other.seqno

diff(d, other) == ((d.year - other.year) * slice_count) + (d.seqno - other.seqno)

next_year(d) == add(d, slice_count)

prev_year(d) == add(d, (-1) * slice_count)

(***************************************************************************)
(* Coordinates.  One degree is UnitsPerDegree units; n / 672 degree is     *)
(* n * 10^6 units.                                                         *)
(***************************************************************************)
UnitsPerDegree == 672 * (10 ^ 6)

\* the coordinate n / 672 degree
C672(n) == n * (10 ^ 6)

\* round(x): Python's round to an integer, in whole degrees
Round0(x) == RoundHalfEven(x, UnitsPerDegree)

\* round(x, 8): the value rounded to 8 decimals, as a count of 1e-8 degree.
\* x * 10^8 / UnitsPerDegree = 25 x / 168, split so that no product overflows.
\* A value exactly half way between two counts is no such half as a double:
\* Python's round and numpy's go by the double, which lies below or above.
\* up is the set of those values whose double is rounded up.
Round8(x, up) ==
    LET a == x \div 168
        b == x % 168
        q == (25 * a) + ((25 * b) \div 168)
        r == (25 * b) % 168
    IN  IF 2 * r < 168 THEN q
        ELSE IF 2 * r > 168 THEN q + 1
        ELSE IF x \in up THEN q + 1 ELSE q

\* no coordinate of a pixel centre is half way between two counts of 1e-8
\* degree (a centre is a multiple of 10^6 units, a half is 84 units off a
\* multiple of 168), so for the AOIs of a run nothing is to be said
NoHalves == {}

(***************************************************************************)
(* CGLSTranslator: resolutions and AOI equality.                           *)
(***************************************************************************)
resolution_pixel_per_degree ==
    [r \in {"1km", "300m"} |-> IF r = "1km" THEN 112 ELSE 336]

pixels_per_degree(resolution) ==
    IF resolution \in DOMAIN resolution_pixel_per_degree
    THEN resolution_pixel_per_degree[resolution]
    ELSE 0

\* The first operand is rounded to a whole number, the second to 8 decimals.
aois_are_equal(the_one, the_other, up) ==
    /\ Round0(the_one[1]) * (10 ^ 8) = Round8(the_other[1], up)
    /\ Round0(the_one[2]) * (10 ^ 8) = Round8(the_other[2], up)
    /\ Round0(the_one[3]) * (10 ^ 8) = Round8(the_other[3], up)
    /\ Round0(the_one[4]) * (10 ^ 8) = Round8(the_other[4], up)

(***************************************************************************)
(* Grids: what get_translator reads from a product's data file.  Each is   *)
(* a tile of about -0.25 to 1.25 degree in both axes; latitudes descend.   *)
(*   VGT     1km, pixel centres on multiples of 1/112 degree               *)
(*   PROBAV  1km, pixel centres a third of a pixel off those of VGT        *)
(*   OLCI    300m, pixel centres on multiples of 1/336 degree              *)
(***************************************************************************)
GridVGT ==
    [gt    |-> <<C672(-168), C672(6), 0, C672(840), 0, C672(-6)>>,
     shape |-> <<169, 169>>,
     lats  |-> [j \in 1..169 |-> C672(840 - (6 * (j - 1)))],
     lons  |-> [j \in 1..169 |-> C672(-168 + (6 * (j - 1)))]]

GridPROBAV ==
    [gt    |-> <<C672(-166), C672(6), 0, C672(838), 0, C672(-6)>>,
     shape |-> <<169, 169>>,
     lats  |-> [j \in 1..169 |-> C672(838 - (6 * (j - 1)))],
     lons  |-> [j \in 1..169 |-> C672(-166 + (6 * (j - 1)))]]

GridOLCI ==
    [gt    |-> <<C672(-168), C672(2), 0, C672(840), 0, C672(-2)>>,
     shape |-> <<505, 505>>,
     lats  |-> [j \in 1..505 |-> C672(840 - (2 * (j - 1)))],
     lons  |-> [j \in 1..505 |-> C672(-168 + (2 * (j - 1)))]]

GridOf(name) ==
    CASE name = "VGT" -> GridVGT
      [] name = "PROBAV" -> GridPROBAV
      [] name = "OLCI" -> GridOLCI

sign(value) == IF value >= 0 THEN 1 ELSE -1

\* an argmin in which the higher index wins whenever two are equally near
RECURSIVE ArgMinIn_last(_, _, _, _, _)
ArgMinIn_last(array, value, lo, hi, higher) ==
    IF lo = hi THEN lo
    ELSE LET mid == (lo + hi) \div 2
             a == ArgMinIn_last(array, value, lo, mid, higher)
             b == ArgMinIn_last(array, value, mid + 1, hi, higher)
         IN  IF Abs(array[b] - value) <= Abs(array[a] - value) THEN b ELSE a

\* (np.abs(array - value)).argmin() over the indexes lo..hi: the first index
\* of the smallest distance.  The range is halved, the lower half winning
\* when the distances are equal, which is what a scan from the left gives.
\* The distances are those of the doubles.  Where the value is exactly half
\* way between two elements the doubles decide which is nearer: higher is the
\* set of the values the double of the higher index is nearer to; to any
\* other value the one of lower index is as near or nearer.
RECURSIVE ArgMinIn(_, _, _, _, _)
ArgMinIn(array, value, lo, hi, higher) ==
    IF lo = hi THEN lo
    ELSE LET mid == (lo + hi) \div 2
             a == ArgMinIn(array, value, lo, mid, higher)
             b == ArgMinIn(array, value, mid + 1, hi, higher)
             da == Abs(array[a] - value)
             db == Abs(array[b] - value)
         IN  IF db < da \/ (db = da /\ value \in higher) THEN b ELSE a

argmin_nearest(array, value, higher) == ArgMinIn(array, value, 1, Len(array), higher)

find_nearest(array, value, higher) == array[argmin_nearest(array, value, higher)]

\* np.arange(start, start + d degrees, s / ppd) for s = +1 or -1 and a whole
\* number d of degrees: start + k * s / ppd for k = 0 .. ceil(d * ppd / s) - 1
arange(start, d, s, ppd) ==
    LET n == IF s * d > 0 THEN s * d * ppd ELSE 0
    IN  [k \in 1..n |-> start + (s * (k - 1) * (UnitsPerDegree \div ppd))]

\* get_aligned_aoi that checks the order of the corners only
aoi_is_ordered(grid, my_ext) ==
    /\ my_ext[1] <= my_ext[3]
    /\ my_ext[2] >= my_ext[4]

\* the six asserts that open get_aligned_aoi of both translators
aoi_is_valid(grid, my_ext) ==
    LET lons == grid.lons
        lats == grid.lats
    IN  /\ my_ext[1] <= my_ext[3]
        /\ my_ext[2] >= my_ext[4]
        /\ lons[1] <= my_ext[1] /\ my_ext[1] <= lons[Len(lons)]
        /\ lats[Len(lats)] <= my_ext[2] /\ my_ext[2] <= lats[1]
        /\ lons[1] <= my_ext[3] /\ my_ext[3] <= lons[Len(lons)]
        /\ lats[Len(lats)] <= my_ext[4] /\ my_ext[4] <= lats[1]

AssertionError == Exception("AssertionError")

\* fp says how the doubles of the axes decide where a value is half way
\* between two elements: for each axis the values that go to the higher index
CGLSTranslator_get_aligned_aoi(t, my_ext, fp) ==
    LET grid == GridOf(t.grid)
    IN  IF ~aoi_is_valid(grid, my_ext) THEN AssertionError
        ELSE <<find_nearest(grid.lons, my_ext[1], fp.lons),
               find_nearest(grid.lats, my_ext[2], fp.lats),
               find_nearest(grid.lons, my_ext[3], fp.lons),
               find_nearest(grid.lats, my_ext[4], fp.lats)>>

\* a resampling translator that aligns on its native axes directly
CGLSResamplingTranslator_get_aligned_aoi_native(t, my_ext, fp) ==
    LET grid == GridOf(t.grid)
    IN  IF ~aoi_is_valid(grid, my_ext) THEN AssertionError
        ELSE <<find_nearest(grid.lons, my_ext[1], fp.lons),
               find_nearest(grid.lats, my_ext[2], fp.lats),
               find_nearest(grid.lons, my_ext[3], fp.lons),
               find_nearest(grid.lats, my_ext[4], fp.lats)>>

CGLSResamplingTranslator_get_aligned_aoi(t, my_ext, fp) ==
    LET grid == GridOf(t.grid)
        dy == RoundHalfEven(grid.shape[1] * sign(grid.gt[6]), t.native_resolution)
        dx == RoundHalfEven(grid.shape[2] * sign(grid.gt[2]), t.native_resolution)
        lat_target == arange(grid.gt[4], dy, sign(grid.gt[6]), t.target_resolution)
        lon_target == arange(grid.gt[1], dx, sign(grid.gt[2]), t.target_resolution)
    IN  IF ~aoi_is_valid(grid, my_ext) THEN AssertionError
        ELSE <<find_nearest(grid.lons,
                            find_nearest(lon_target, my_ext[1], fp.lon_target), fp.lons),
               find_nearest(grid.lats,
                            find_nearest(lat_target, my_ext[2], fp.lat_target), fp.lats),
               find_nearest(grid.lons,
                            find_nearest(lon_target, my_ext[3], fp.lon_target), fp.lons),
               find_nearest(grid.lats,
                            find_nearest(lat_target, my_ext[4], fp.lat_target), fp.lats)>>

\* t.get_aligned_aoi(my_ext), dispatched on the translator's class
dispatch_get_aligned_aoi(t, my_ext, fp) ==
    IF t.class = "CGLSResamplingTranslator"
    THEN CGLSResamplingTranslator_get_aligned_aoi(t, my_ext, fp)
    ELSE CGLSTranslator_get_aligned_aoi(t, my_ext, fp)

(***************************************************************************)
(* CGLSProduct: the catalog of ingest.py and the translator factory.       *)
(***************************************************************************)
Catalog == {"VGT", "PROBAV", "OLCI"}

\* CGLSProduct.resolution of the three registered products
product_resolution(name) == IF name = "OLCI" THEN "300m" ELSE "1km"

RuntimeError == Exception("RuntimeError")

\* product.get_translator(datafile, variable, target_resolution): the grid is
\* read from the data file of the product.  class "RuntimeError" stands for
\* the raise.
\* a factory that builds a translator whatever the two resolutions are
get_translator_unchecked(product, target) ==
    [class |-> IF pixels_per_degree(product.resolution) = pixels_per_degree(target)
               THEN "CGLSTranslator" ELSE "CGLSResamplingTranslator",
     grid |-> product.name,
     native_resolution |-> pixels_per_degree(product.resolution),
     target_resolution |-> pixels_per_degree(target)]

get_translator(product, target) ==
    LET product_pixels_per_degree == pixels_per_degree(product.resolution)
        target_pixels_per_degree == pixels_per_degree(target)
    IN  IF (product_pixels_per_degree % target_pixels_per_degree) # 0
        THEN [class |-> "RuntimeError"]
        ELSE IF product_pixels_per_degree = target_pixels_per_degree
        THEN [class |-> "CGLSTranslator",
              grid |-> product.name,
              native_resolution |-> product_pixels_per_degree,
              target_resolution |-> product_pixels_per_degree]
        ELSE [class |-> "CGLSResamplingTranslator",
              grid |-> product.name,
              native_resolution |-> product_pixels_per_degree,
              target_resolution |-> target_pixels_per_degree]

(***************************************************************************)
(* The alignments a run can ask for, computed once: every translator the   *)
(* factory can build, applied to the requested AOIs and to what any        *)
(* translator makes of those.  get_aligned_aoi looks the answer up.        *)
(* None of these coordinates is half way between two pixel centres of any  *)
(* axis it is aligned on, so the doubles have nothing to decide.           *)
(***************************************************************************)
NoMidpoints == [lons |-> {}, lats |-> {}, lon_target |-> {}, lat_target |-> {}]

AllTranslators ==
    {get_translator([name |-> n, resolution |-> product_resolution(n)], r) :
        n \in Catalog, r \in DOMAIN resolution_pixel_per_degree}
    \ {[class |-> "RuntimeError"]}

RequestedAois ==
    {<<0, UnitsPerDegree, UnitsPerDegree, 0>>,
     <<2 * (UnitsPerDegree \div 10), 8 * (UnitsPerDegree \div 10),
       7 * (UnitsPerDegree \div 10), 3 * (UnitsPerDegree \div 10)>>}

AlignedOnce ==
    [k \in AllTranslators \X RequestedAois |->
        dispatch_get_aligned_aoi(k[1], k[2], NoMidpoints)]

AlignedTwice ==
    [k \in AllTranslators \X {AlignedOnce[j] : j \in DOMAIN AlignedOnce} |->
        IF Len(k[2]) = 4 THEN dispatch_get_aligned_aoi(k[1], k[2], NoMidpoints) ELSE k[2]]

AlignedTable == AlignedOnce @@ AlignedTwice

get_aligned_aoi(t, my_ext) == AlignedTable[<<t, my_ext>>]

(***************************************************************************)
(* Paths: a naming pattern names the placeholders it holds and the suffix  *)
(* it ends with; resolving it for a Dekad fills the placeholders in.       *)
(***************************************************************************)
\* the default of --naming: "_CGLS_NDVI_$(yyyy)_$(mm)_d$(mdekad)"
PatternDefault == [placeholders |-> {"yyyy", "mm", "mdekad"}, suffix |-> ""]

\* "NDVI_$(yyyy)$(mm)$(dd).tif"
PatternTif == [placeholders |-> {"yyyy", "mm", "dd"}, suffix |-> ".tif"]

placeholder_value(d, ph) ==
    CASE ph = "yyyy" -> d.year
      [] ph = "mm" -> month(d)
      [] ph = "dd" -> day(d)
      [] ph = "mdekad" -> ((d.seqno - 1) % 3) + 1

\* output_dir.joinpath(dekad.resolve(naming_pattern))
resolve(d, pattern) ==
    [name |-> [ph \in pattern.placeholders |-> placeholder_value(d, ph)],
     suffix |-> pattern.suffix]

\* path.with_suffix(".tif")
with_suffix_tif(path) == [path EXCEPT !.suffix = ".tif"]

(***************************************************************************)
(* CGLSProductAccessor.is_advertised: the manifest of a product is the set *)
(* of dekads it lists.                                                     *)
(***************************************************************************)
is_advertised(product, timestep) == timestep \in product.adv

(***************************************************************************)
(* The coarsening resample of CGLSResamplingTranslator.translate.  An      *)
(* array is a function from <<row, column>> (from 1) to a pixel value.     *)
(***************************************************************************)
min_valid == 5

is_valid(v, valid_range) == (v >= valid_range[1]) /\ (v <= valid_range[2])

\* the cells of the factor x factor block of output pixel <<r, c>>
block_cells(r, c, factor) ==
    (((r - 1) * factor) + 1 .. r * factor) \X (((c - 1) * factor) + 1 .. c * factor)

RECURSIVE SumOver(_, _)
SumOver(da, cells) ==
    IF cells = {} THEN 0
    ELSE LET x == CHOOSE y \in cells : TRUE
         IN  da[x] + SumOver(da, cells \ {x})

\* vo.coarsen(...).sum(): the number of valid pixels of the block
vo_cnt(da, valid_range, r, c, factor) ==
    Cardinality({x \in block_cells(r, c, factor) : is_valid(da[x], valid_range)})

\* np.rint(da_msk.coarsen(...).mean()): the mean of the valid pixels of the
\* block, rounded half to even; NaN when the block holds no valid pixel
NaN == "NaN"

\* a variant that forgets the mask: every pixel of the block is averaged
coarsen_int_unmasked(da, valid_range, r, c, factor) ==
    RoundHalfEven(SumOver(da, block_cells(r, c, factor)),
                  Cardinality(block_cells(r, c, factor)))

coarsen_int(da, valid_range, r, c, factor) ==
    LET valid == {x \in block_cells(r, c, factor) : is_valid(da[x], valid_range)}
    IN  IF valid = {} THEN NaN
        ELSE RoundHalfEven(SumOver(da, valid), Cardinality(valid))

\* .astype(np.dtype("B")) of a whole number
astype_B(v) == v % 256

\* a variant with the threshold one too low
grid_pixel_four_suffice(da, valid_range, fill, r, c, factor) ==
    IF vo_cnt(da, valid_range, r, c, factor) >= min_valid - 1
    THEN astype_B(coarsen_int(da, valid_range, r, c, factor))
    ELSE astype_B(fill)

\* one pixel of grid
grid_pixel(da, valid_range, fill, r, c, factor) ==
    IF vo_cnt(da, valid_range, r, c, factor) >= min_valid
    THEN astype_B(coarsen_int(da, valid_range, r, c, factor))
    ELSE astype_B(fill)

\* grid: boundary="trim" drops the rows and columns beyond the last whole block
coarsen_grid(da, shape, valid_range, fill, factor) ==
    [rc \in (1 .. (shape[1] \div factor)) \X (1 .. (shape[2] \div factor)) |->
        grid_pixel(da, valid_range, fill, rc[1], rc[2], factor)]

(***************************************************************************)
(* translate of the two translators, as far as files go.  What can go      *)
(* wrong inside is an input: nothing, the read or transform of the data    *)
(* file, the opening of the raster writer, or the write of the raster.     *)
(* A raster there was is unlinked before the writer is opened; nothing is  *)
(* removed afterwards, so what a failing write leaves behind stays.        *)
(***************************************************************************)
TranslateFailures == {"none", "read", "open", "write"}

\* whatever exception the failing library call raised
Raised == Exception("Exception")

\* CGLSTranslator.translate: [ret |-> <<the path written>> or None, out |->
\* the output directory afterwards]
CGLSTranslator_translate(failure, out, output_path) ==
    LET tif == with_suffix_tif(output_path)
    IN  CASE failure = "read" -> [ret |-> None, out |-> out]
          [] failure = "open" -> [ret |-> None, out |-> out \ {tif}]
          [] failure = "write" -> [ret |-> None, out |-> out \cup {tif}]
          [] failure = "none" -> [ret |-> <<tif>>, out |-> out \cup {tif}]

\* CGLSResamplingTranslator.translate: the handler logs and raises again
CGLSResamplingTranslator_translate(failure, out, output_path) ==
    LET tif == with_suffix_tif(output_path)
    IN  CASE failure = "read" -> [ret |-> Raised, out |-> out]
          [] failure = "open" -> [ret |-> Raised, out |-> out \ {tif}]
          [] failure = "write" -> [ret |-> Raised, out |-> out \cup {tif}]
          [] failure = "none" -> [ret |-> <<tif>>, out |-> out \cup {tif}]

translate(t, failure, out, output_path) ==
    IF t.class = "CGLSResamplingTranslator"
    THEN CGLSResamplingTranslator_translate(failure, out, output_path)
    ELSE CGLSTranslator_translate(failure, out, output_path)

(***************************************************************************)
(* CGLSProductAssimilator.prepare                                          *)
(***************************************************************************)
\* the inner while of the first-hit search: the index of the first product
\* that advertises the cursor, Len(products) + 1 when none does
\* a scan that stops at the last product advertising the dekad
prepare_scan_last(prods, c) ==
    IF \E i \in 1..Len(prods) : is_advertised(prods[i], c)
    THEN CHOOSE i \in 1..Len(prods) :
            /\ is_advertised(prods[i], c)
            /\ \A j \in (i + 1)..Len(prods) : ~is_advertised(prods[j], c)
    ELSE Len(prods) + 1

prepare_scan(prods, c) ==
    IF \E i \in 1..Len(prods) : is_advertised(prods[i], c)
    THEN CHOOSE i \in 1..Len(prods) :
            /\ is_advertised(prods[i], c)
            /\ \A j \in 1..(i - 1) : ~is_advertised(prods[j], c)
    ELSE Len(prods) + 1

has_first_hit(hits, i) == \E k \in 1..Len(hits) : hits[k][1] = i

\* a variant that assigns without the test: a later hit replaces the first
record_first_hit_overwriting(hits, i, c) ==
    IF \E k \in 1..Len(hits) : hits[k][1] = i
    THEN [k \in 1..Len(hits) |-> IF hits[k][1] = i THEN <<i, c>> ELSE hits[k]]
    ELSE Append(hits, <<i, c>>)

\* if i not in product_first_hit: product_first_hit[i] = cursor
record_first_hit(hits, i, c) ==
    IF has_first_hit(hits, i) THEN hits ELSE Append(hits, <<i, c>>)

TypeError == Exception("TypeError")

\* the for loop of find_aligned_aoi from translator i on: None when every
\* other translator reproduces _tested, else the exception that ends it.
\* A disagreement calls find_aligned_aoi(start_at - 1, self.target_aoi), two
\* arguments for a function of one.
RECURSIVE check_others(_, _, _, _)
check_others(trs, start_at, tested, i) ==
    IF i > Len(trs) THEN None
    ELSE IF i = start_at THEN check_others(trs, start_at, tested, i + 1)
    ELSE LET again == get_aligned_aoi(trs[i], tested)
         IN  IF again = AssertionError THEN AssertionError
             ELSE IF ~aois_are_equal(again, tested, NoHalves) THEN TypeError
             ELSE check_others(trs, start_at, tested, i + 1)

\* a variant that hands the requested AOI back as it came
find_aligned_aoi_unaligned(trs, start_at, aoi) == aoi

\* find_aligned_aoi(start_at), start_at counted from 1
find_aligned_aoi(trs, start_at, aoi) ==
    IF start_at < 1 \/ start_at > Len(trs) THEN None
    ELSE LET tested == get_aligned_aoi(trs[start_at], aoi)
         IN  IF tested = AssertionError THEN AssertionError
             ELSE LET others == check_others(trs, start_at, tested, 1)
                  IN  IF others = None THEN tested ELSE others

Exceptions == {AssertionError, RuntimeError, TypeError, Raised}

(***************************************************************************)
(* CGLSProductAssimilator.ingest                                           *)
(***************************************************************************)
\* a variant that keeps the last advertising product instead of the first
access_and_translate_pick_last(prods, dekad) ==
    IF \E i \in 1..Len(prods) : is_advertised(prods[i], dekad)
    THEN CHOOSE i \in 1..Len(prods) :
            /\ is_advertised(prods[i], dekad)
            /\ \A j \in (i + 1)..Len(prods) : ~is_advertised(prods[j], dekad)
    ELSE 0

\* the for loop of access_and_translate: the product translated for dekad,
\* 0 when the loop falls through
access_and_translate_pick(prods, dekad) ==
    IF \E i \in 1..Len(prods) : is_advertised(prods[i], dekad)
    THEN CHOOSE i \in 1..Len(prods) :
            /\ is_advertised(prods[i], dekad)
            /\ \A j \in 1..(i - 1) : ~is_advertised(prods[j], dekad)
    ELSE 0

\* not self.output_dir.joinpath(cursor.resolve(self.__naming_pattern)).exists()
output_missing(out, c, pattern) == resolve(c, pattern) \notin out

\* the assert of access_and_translate
ingest_assertion(t, aoi) ==
    LET again == get_aligned_aoi(t, aoi)
    IN  again # AssertionError /\ aois_are_equal(again, aoi, NoHalves)

\* a variant that skips ahead instead of returning
ingest_skips_ahead(ret) == FALSE

\* if access_and_translate(cursor) is None: return
ingest_gives_up(ret) == ret = None

(***************************************************************************)
(* The files of CGLSProductAccessor.download.  A directory is <<name>>, a  *)
(* path is <<directory name, file name>>; a path holds nothing, a part of  *)
(* the data file (a write that did not finish) or all of it.  The data     *)
(* file lies in a dated subdirectory, which a directory has or has not.    *)
(***************************************************************************)
Directories == {"mirror", "target", "scratch"}

datafile == "c_gls.nc"

coardasdl == "c_gls.coardasdl"

AllPaths == Directories \X {datafile, coardasdl}

NoFiles == [path \in AllPaths |-> "absent"]

joinpath(dir, name) == <<dir[1], name>>

with_suffix_coardasdl(path) == <<path[1], coardasdl>>

exists(fs, path) == fs[path] # "absent"

AttributeError == Exception("AttributeError")

ConnectionError == Exception("ConnectionError")

FileNotFoundError == Exception("FileNotFoundError")

\* self.__mirror_is_readonly as __init__ sets it
mirror_is_readonly(a) == IF a.mirror # None THEN a.mirror_is_readonly ELSE TRUE

mirrorfile(a) == IF a.mirror # None THEN joinpath(a.mirror, datafile) ELSE None

\* the target file, or the AttributeError of None.joinpath
targetfile(a) ==
    IF a.target_location # None THEN joinpath(a.target_location, datafile)
    ELSE IF mirrorfile(a) # None THEN mirrorfile(a)
    ELSE IF a.scratch_dir # None THEN joinpath(a.scratch_dir, datafile)
    ELSE AttributeError

downloadfile(a) ==
    IF mirrorfile(a) = None \/ mirror_is_readonly(a)
    THEN with_suffix_coardasdl(targetfile(a))
    ELSE with_suffix_coardasdl(mirrorfile(a))

\* the yields that sit in a try whose finally unlinks the target file
YieldsInTry == {"yield_105", "yield_138", "yield_148"}

Yields == {"yield_79", "yield_99", "yield_110", "yield_143"} \cup YieldsInTry

(***************************************************************************)
(* Bounds and inputs.                                                      *)
(***************************************************************************)
MaxProducts == 2

NumDekads == 3

MaxRuns == 2

\* the dekads a manifest may list: NumDekads dekads across a year's end
FirstDekad == Dekad(2022, 35)

ManifestDekads == {add(FirstDekad, k) : k \in 0..(NumDekads - 1)}

\* a date inside each of them, for --begin-date and --end-date
Dates == {datetime(d.year, month(d), day(d) + 4) : d \in ManifestDekads}

ProductChoices ==
    {[name |-> n, resolution |-> product_resolution(n), adv |-> a] :
        n \in Catalog, a \in SUBSET ManifestDekads}

ProductLists == UNION {[1..n -> ProductChoices] : n \in 0..MaxProducts}

\* --aoi 0.0 1.0 1.0 0.0 and --aoi 0.2 0.8 0.7 0.3
TargetAois == RequestedAois

NamingPatterns == {PatternDefault, PatternTif}

\* CGLSProductAccessor.download as prepare and ingest use it: it yields the
\* data file, or raises (no scratch directory, a read-only mirror, the network)
DownloadOutcomes == {"datafile", "raised"}

(***************************************************************************)
(* The program: ingest.py runs prepare, then ingest.                       *)
(***************************************************************************)
\* the run ends: by a return of ingest, or by an exception
Ended(how, exc) ==
    /\ pc' = "ended"
    /\ result' = how
    /\ error' = exc

\* CGLSProductAccessor.__init__ requests the manifest of its product: the
\* request answers, or raises (the network)
ManifestOutcomes == {"text", "raised"}

\* ingest.py: the assimilator is constructed and the products are added, each
\* by an accessor that loads its manifest; when a request raises, the run
\* ends by that exception before prepare is called
main_start ==
    /\ pc \in {"idle", "ended"}
    /\ run < MaxRuns
    /\ run' = run + 1
    /\ \E manifest \in ManifestOutcomes :
            IF manifest = "raised" /\ products # <<>>
            THEN Ended("add_raised", Raised)
            ELSE /\ pc' = "search"
                 /\ result' = "running"
                 /\ error' = None
    /\ cursor' = DekadFromDate(begin_date)
    /\ product_first_hit' = <<>>
    /\ translators' = <<>>
    /\ aligned_aoi' = None
    /\ walked' = <<>>
    /\ steps' = <<>>
    /\ UNCHANGED <<products, target_resolution, target_aoi, naming_pattern,
                   begin_date, end_date, output_dir, block, coarse,
                   args, returned, files, subdirs, at>>

\* one pass of the while loop of prepare
prepare_search ==
    /\ pc = "search"
    /\ IF ends_after(cursor, DekadFromDate(end_date))
       THEN /\ pc' = "reconcile"
            /\ UNCHANGED <<cursor, product_first_hit, walked, result, error>>
       ELSE LET i == prepare_scan(products, cursor)
                hits == record_first_hit(product_first_hit, i, cursor)
            IN  /\ walked' = Append(walked, cursor)
                /\ IF i = Len(products) + 1
                   THEN \* return False, and ingest.py raises RuntimeError
                        /\ Ended("prepare_false", RuntimeError)
                        /\ UNCHANGED <<cursor, product_first_hit>>
                   ELSE /\ product_first_hit' = hits
                        /\ IF Len(hits) = Len(products)
                           THEN pc' = "reconcile" /\ cursor' = cursor
                           ELSE pc' = "search" /\ cursor' = add(cursor, 1)
                        /\ UNCHANGED <<result, error>>
    /\ UNCHANGED <<products, target_resolution, target_aoi, naming_pattern,
                   begin_date, end_date, output_dir, run, translators,
                   aligned_aoi, steps, block, coarse,
                   args, returned, files, subdirs, at>>

\* one pass of the for loop of prepare over product_first_hit.items(), or
\* its end: return True
prepare_reconcile ==
    /\ pc = "reconcile"
    /\ IF Len(translators) = Len(product_first_hit)
       THEN /\ pc' = "prepared"
            /\ UNCHANGED <<translators, aligned_aoi, result, error>>
       ELSE \E dl \in DownloadOutcomes :
            LET i == product_first_hit[Len(translators) + 1][1]
                t == get_translator(products[i], target_resolution)
                trs == Append(translators, t)
                aoi == find_aligned_aoi(trs, Len(trs), target_aoi)
            IN  IF dl = "raised"
                THEN /\ Ended("prepare_raised", Raised)
                     /\ UNCHANGED <<translators, aligned_aoi>>
                ELSE IF t.class = "RuntimeError"
                THEN /\ Ended("prepare_raised", RuntimeError)
                     /\ UNCHANGED <<translators, aligned_aoi>>
                ELSE IF aoi \in Exceptions
                THEN /\ Ended("prepare_raised", aoi)
                     /\ translators' = trs
                     /\ UNCHANGED aligned_aoi
                ELSE IF aoi = None
                THEN \* return False, and ingest.py raises RuntimeError
                     /\ Ended("prepare_false", RuntimeError)
                     /\ translators' = trs
                     /\ aligned_aoi' = None
                ELSE /\ translators' = trs
                     /\ aligned_aoi' = aoi
                     /\ UNCHANGED <<pc, result, error>>
    /\ UNCHANGED <<products, target_resolution, target_aoi, naming_pattern,
                   begin_date, end_date, output_dir, run, cursor,
                   product_first_hit, walked, steps, block, coarse,
                   args, returned, files, subdirs, at>>

\* ingest.py calls ingest: its opening assert, and the cursor is set
ingest_begin ==
    /\ pc = "prepared"
    /\ IF aligned_aoi = None
       THEN Ended("ingest_raised", AssertionError) /\ UNCHANGED cursor
       ELSE /\ pc' = "ingest"
            /\ cursor' = DekadFromDate(begin_date)
            /\ UNCHANGED <<result, error>>
    /\ UNCHANGED <<products, target_resolution, target_aoi, naming_pattern,
                   begin_date, end_date, output_dir, run, product_first_hit,
                   translators, aligned_aoi, walked, steps, block, coarse,
                   args, returned, files, subdirs, at>>

\* an entry of the history: the dekad, the product picked (0 for none), what
\* happened, and whether the raster of the dekad was on disk beforehand
Step(c, i, what) ==
    [dekad |-> c, product |-> i, what |-> what,
     existed |-> with_suffix_tif(resolve(c, naming_pattern)) \in output_dir]

\* one pass of the while loop of ingest
ingest_step ==
    /\ pc = "ingest"
    /\ IF ends_after(cursor, DekadFromDate(end_date))
       THEN /\ Ended("ingest_done", None)
            /\ UNCHANGED <<cursor, output_dir, steps>>
       ELSE IF ~output_missing(output_dir, cursor, naming_pattern)
       THEN /\ steps' = Append(steps, Step(cursor, 0, "skipped"))
            /\ cursor' = add(cursor, 1)
            /\ UNCHANGED <<pc, result, error, output_dir>>
       ELSE LET i == access_and_translate_pick(products, cursor)
            IN  IF i = 0
                THEN \* access_and_translate falls off its loop: None
                     /\ IF ingest_gives_up(None)
                        THEN Ended("ingest_stopped", None) /\ UNCHANGED cursor
                        ELSE cursor' = add(cursor, 1) /\ UNCHANGED <<pc, result, error>>
                     /\ steps' = Append(steps, Step(cursor, 0, "no product"))
                     /\ UNCHANGED output_dir
                ELSE \E dl \in DownloadOutcomes, failure \in TranslateFailures :
                     LET t == get_translator(products[i], target_resolution)
                         tr == translate(t, failure, output_dir,
                                         resolve(cursor, naming_pattern))
                     IN  IF dl = "raised"
                         THEN /\ Ended("ingest_raised", Raised)
                              /\ steps' = Append(steps, Step(cursor, i, "download raised"))
                              /\ UNCHANGED <<cursor, output_dir>>
                         ELSE IF t.class = "RuntimeError"
                         THEN /\ Ended("ingest_raised", RuntimeError)
                              /\ steps' = Append(steps, Step(cursor, i, "no translator"))
                              /\ UNCHANGED <<cursor, output_dir>>
                         ELSE IF ~ingest_assertion(t, aligned_aoi)
                         THEN /\ Ended("ingest_raised", AssertionError)
                              /\ steps' = Append(steps, Step(cursor, i, "assertion failed"))
                              /\ UNCHANGED <<cursor, output_dir>>
                         ELSE IF tr.ret = Raised
                         THEN /\ Ended("ingest_raised", Raised)
                              /\ steps' = Append(steps, Step(cursor, i, "translate raised"))
                              /\ output_dir' = tr.out
                              /\ UNCHANGED cursor
                         ELSE IF tr.ret = None
                         THEN /\ IF ingest_gives_up(tr.ret)
                                 THEN Ended("ingest_stopped", None) /\ UNCHANGED cursor
                                 ELSE cursor' = add(cursor, 1) /\ UNCHANGED <<pc, result, error>>
                              /\ steps' = Append(steps, Step(cursor, i, "no output"))
                              /\ output_dir' = tr.out
                         ELSE /\ steps' = Append(steps, Step(cursor, i, "written"))
                              /\ output_dir' = tr.out
                              /\ cursor' = add(cursor, 1)
                              /\ UNCHANGED <<pc, result, error>>
    /\ UNCHANGED <<products, target_resolution, target_aoi, naming_pattern,
                   begin_date, end_date, run, product_first_hit, translators,
                   aligned_aoi, walked, block, coarse,
                   args, returned, files, subdirs, at>>

Init ==
    /\ products \in ProductLists
    /\ target_resolution \in DOMAIN resolution_pixel_per_degree
    /\ target_aoi \in TargetAois
    /\ naming_pattern \in NamingPatterns
    /\ begin_date \in Dates
    /\ end_date \in Dates
    /\ output_dir = {}
    /\ pc = "idle"
    /\ run = 0
    /\ cursor = DekadFromDate(begin_date)
    /\ product_first_hit = <<>>
    /\ translators = <<>>
    /\ aligned_aoi = None
    /\ result = "idle"
    /\ error = None
    /\ walked = <<>>
    /\ steps = <<>>
    /\ block = None
    /\ coarse = None
    /\ args = None
    /\ returned = <<>>
    /\ files = NoFiles
    /\ subdirs = {}
    /\ at = "idle"

Next ==
    \/ main_start
    \/ prepare_search
    \/ prepare_reconcile
    \/ ingest_begin
    \/ ingest_step

Spec == Init /\ [][Next]_vars

(***************************************************************************)
(* The resampling transform on its own: a data array is drawn, and         *)
(* CGLSResamplingTranslator.translate coarsens it.                         *)
(***************************************************************************)
\* digital numbers: two inside the valid range of NDVI, one flag value
PixelValues == {2, 3, 255}

\* native and target pixels per degree the constructor's assert lets through
ResamplingPairs ==
    {nt \in {112, 336} \X {112, 336} : (nt[1] % nt[2]) = 0}

\* the variable's valid_range attribute: that of NDVI, and a narrower one
ValidRanges == {<<0, 250>>, <<3, 250>>}

\* one block of factor x factor pixels, hence one output pixel
Block(nt, da, vr) ==
    [da |-> da, shape |-> <<nt[1] \div nt[2], nt[1] \div nt[2]>>,
     valid_range |-> vr, fill |-> 255,
     native_resolution |-> nt[1], target_resolution |-> nt[2]]

factor_of(b) == b.native_resolution \div b.target_resolution

InitCoarsen ==
    /\ products = <<>>
    /\ target_resolution = "1km"
    /\ target_aoi = <<0, 0, 0, 0>>
    /\ naming_pattern = PatternDefault
    /\ begin_date = datetime(2022, 12, 15)
    /\ end_date = datetime(2022, 12, 15)
    /\ output_dir = {}
    /\ pc = "idle"
    /\ run = 0
    /\ cursor = DekadFromDate(begin_date)
    /\ product_first_hit = <<>>
    /\ translators = <<>>
    /\ aligned_aoi = None
    /\ result = "idle"
    /\ error = None
    /\ walked = <<>>
    /\ steps = <<>>
    /\ \E nt \in ResamplingPairs, vr \in ValidRanges :
         \E da \in [(1 .. (nt[1] \div nt[2])) \X (1 .. (nt[1] \div nt[2])) -> PixelValues] :
            block = Block(nt, da, vr)
    /\ coarse = None
    /\ args = None
    /\ returned = <<>>
    /\ files = NoFiles
    /\ subdirs = {}
    /\ at = "idle"

resample ==
    /\ coarse = None
    /\ coarse' = <<coarsen_grid(block.da, block.shape, block.valid_range,
                                block.fill, factor_of(block))>>
    /\ UNCHANGED <<products, target_resolution, target_aoi, naming_pattern,
                   begin_date, end_date, output_dir, pc, run, cursor,
                   product_first_hit, translators, aligned_aoi, result, error,
                   walked, steps, block, args, returned, files, subdirs, at>>

NextCoarsen == resample

SpecCoarsen == InitCoarsen /\ [][NextCoarsen]_vars

(***************************************************************************)
(* The Dekad arithmetic on its own: a caller holds the arguments and calls *)
(* the methods of objects/timeslicing.py, some on what an earlier call     *)
(* returned.                                                               *)
(***************************************************************************)
MaxYears == 3

MaxDiff == 40

\* the years of FirstDekad and after; the third one is a leap year
DekadYears == {FirstDekad.year + k : k \in 0..(MaxYears - 1)}

Dekads == {Dekad(y, s) : y \in DekadYears, s \in 1..slice_count}

Diffs == (0 - MaxDiff)..MaxDiff

CalendarDates ==
    UNION {UNION {{datetime(y, m, d) : d \in 1..DaysInMonth(y, m)} : m \in 1..12} :
            y \in DekadYears}

\* the variables of the assimilation and of the resample, at rest
at_rest ==
    /\ products = <<>>
    /\ target_resolution = "1km"
    /\ target_aoi = <<0, 0, 0, 0>>
    /\ naming_pattern = PatternDefault
    /\ begin_date = datetime(2022, 12, 15)
    /\ end_date = datetime(2022, 12, 15)
    /\ output_dir = {}
    /\ pc = "idle"
    /\ run = 0
    /\ cursor = DekadFromDate(begin_date)
    /\ product_first_hit = <<>>
    /\ translators = <<>>
    /\ aligned_aoi = None
    /\ result = "idle"
    /\ error = None
    /\ walked = <<>>
    /\ steps = <<>>
    /\ block = None
    /\ coarse = None

rest_vars ==
    <<products, target_resolution, target_aoi, naming_pattern, begin_date,
      end_date, output_dir, pc, run, cursor, product_first_hit, translators,
      aligned_aoi, result, error, walked, steps, block, coarse>>

InitDekad ==
    /\ at_rest
    /\ \/ \E d \in Dekads, n \in Diffs : args = [kind |-> "arith", self |-> d, n |-> n]
       \/ \E d \in Dekads : args = [kind |-> "unary", self |-> d]
       \/ \E d \in Dekads, o \in Dekads : args = [kind |-> "pair", self |-> d, other |-> o]
       \/ \E dt \in CalendarDates : args = [kind |-> "date", date |-> dt]
    /\ returned = <<>>
    /\ files = NoFiles
    /\ subdirs = {}
    /\ at = "idle"

\* the call, when it is the first: its name and what it returned
Returns(op, value) ==
    /\ returned = <<>>
    /\ returned' = <<[op |-> op, value |-> value]>>
    /\ UNCHANGED <<rest_vars, args, files, subdirs, at>>

\* the call on what the one call before it returned
ThenReturns(on, op, value) ==
    /\ Len(returned) = 1
    /\ returned[1].op = on
    /\ returned' = Append(returned, [op |-> op, value |-> value])
    /\ UNCHANGED <<rest_vars, args, files, subdirs, at>>

\* self + n
call_add == args.kind = "arith" /\ Returns("add", add(args.self, args.n))

call_next_year == args.kind = "unary" /\ Returns("next_year", next_year(args.self))

call_prev_year == args.kind = "unary" /\ Returns("prev_year", prev_year(args.self))

\* self.month, self.day
call_month_day ==
    args.kind = "unary" /\ Returns("month_day", <<month(args.self), day(args.self)>>)

call_get_slice_start ==
    args.kind = "unary" /\ Returns("get_slice_start", get_slice_start(args.self))

\* Dekad(date)
call_Dekad == args.kind = "date" /\ Returns("Dekad", DekadFromDate(args.date))

\* self.greater_than(other), other.greater_than(self), self.equals(other)
call_compare ==
    args.kind = "pair"
    /\ Returns("compare", [greater |-> greater_than(args.self, args.other),
                           less |-> greater_than(args.other, args.self),
                           equals |-> equals(args.self, args.other)])

\* (self + n).month, (self + n).day
add_then_month_day ==
    Len(returned) = 1
    /\ ThenReturns("add", "month_day", <<month(returned[1].value), day(returned[1].value)>>)

\* Dekad(date).month, Dekad(date).day
Dekad_then_month_day ==
    Len(returned) = 1
    /\ ThenReturns("Dekad", "month_day", <<month(returned[1].value), day(returned[1].value)>>)

\* (self + n).greater_than(self)
add_then_greater_than ==
    Len(returned) = 1
    /\ ThenReturns("add", "greater_than", greater_than(returned[1].value, args.self))

\* self.diff(self + n)
add_then_diff ==
    Len(returned) = 1
    /\ ThenReturns("add", "diff", diff(args.self, returned[1].value))

\* Dekad(self.get_slice_start())
get_slice_start_then_Dekad ==
    Len(returned) = 1
    /\ ThenReturns("get_slice_start", "Dekad", DekadFromDate(returned[1].value))

NextDekad ==
    \/ call_add
    \/ call_next_year
    \/ call_prev_year
    \/ call_month_day
    \/ call_get_slice_start
    \/ call_Dekad
    \/ call_compare
    \/ add_then_month_day
    \/ Dekad_then_month_day
    \/ add_then_greater_than
    \/ add_then_diff
    \/ get_slice_start_then_Dekad

SpecDekad == InitDekad /\ [][NextDekad]_vars

(***************************************************************************)
(* CGLSTranslator.aois_are_equal on its own: called on two AOIs, in both   *)
(* orders, and on the first one and itself.                                *)
(***************************************************************************)
\* what a coordinate of the second AOI is off by, in units: nothing, noise
\* below 1e-8 degree (a unit is about 1.5e-9 degree), just over 1e-7, and
\* 1.25e-7, which puts it half way between two counts of 1e-8
Offsets == {0 - 1, 0, 1, 68, 84}

\* x is half way between two counts of 1e-8 degree
is_half(x) == 2 * ((25 * (x % 168)) % 168) = 168

\* the requested AOIs, each coordinate off by one of Offsets
NearbyAois ==
    {<<a[1] + o[1], a[2] + o[2], a[3] + o[3], a[4] + o[4]>> :
        a \in RequestedAois, o \in Offsets \X Offsets \X Offsets \X Offsets}

InitAoi ==
    /\ at_rest
    /\ \E a \in RequestedAois, b \in NearbyAois :
         \E up \in SUBSET {b[k] : k \in {j \in 1..4 : is_half(b[j])}} :
            args = [kind |-> "aois", the_one |-> a, the_other |-> b, up |-> up]
    /\ returned = <<>>
    /\ files = NoFiles
    /\ subdirs = {}
    /\ at = "idle"

call_aois_are_equal ==
    args.kind = "aois"
    /\ Returns("aois_are_equal",
               [forth |-> aois_are_equal(args.the_one, args.the_other, args.up),
                back |-> aois_are_equal(args.the_other, args.the_one, args.up),
                self |-> aois_are_equal(args.the_one, args.the_one, args.up)])

NextAoi == call_aois_are_equal

SpecAoi == InitAoi /\ [][NextAoi]_vars

(***************************************************************************)
(* The translator factory and get_aligned_aoi on their own: a translator   *)
(* is asked for, and the one returned aligns an AOI.                       *)
(***************************************************************************)
\* what a coordinate of the AOI is: left of and below every grid, the middle
\* between two pixel centres of every grid, 0.2 degree, 1 degree, and right
\* of and above every grid
AoiCoordinates ==
    {C672(0 - 174), C672(3), 2 * (UnitsPerDegree \div 10), UnitsPerDegree, C672(846)}

AnyAois == AoiCoordinates \X AoiCoordinates \X AoiCoordinates \X AoiCoordinates

\* the coordinate of those that is half way between two elements of an axis
Midpoints == {C672(3)}

\* how the doubles decide there.  On the axes of the data files, k / 672
\* degree, the two differences are the same double, 3 / 672, and argmin
\* takes the first index.  On the axes np.arange makes, origin + i * step,
\* the element before the midpoint lies a rounding error further off than
\* the one after it, which has the higher index.
Roundings ==
    [lons |-> {}, lats |-> {}, lon_target |-> Midpoints, lat_target |-> Midpoints]

InitTranslator ==
    /\ at_rest
    /\ \E n \in Catalog, r \in DOMAIN resolution_pixel_per_degree, a \in AnyAois :
            args = [kind |-> "align",
                    fp |-> Roundings,
                    product |-> [name |-> n, resolution |-> product_resolution(n)],
                    target_resolution |-> r,
                    my_ext |-> a]
    /\ returned = <<>>
    /\ files = NoFiles
    /\ subdirs = {}
    /\ at = "idle"

call_get_translator ==
    args.kind = "align"
    /\ Returns("get_translator", get_translator(args.product, args.target_resolution))

\* t.get_aligned_aoi(my_ext), t the translator the factory returned
get_translator_then_get_aligned_aoi ==
    /\ Len(returned) = 1
    /\ returned[1].op = "get_translator"
    /\ returned[1].value.class # "RuntimeError"
    /\ ThenReturns("get_translator", "get_aligned_aoi",
                   dispatch_get_aligned_aoi(returned[1].value, args.my_ext, args.fp))

NextTranslator ==
    \/ call_get_translator
    \/ get_translator_then_get_aligned_aoi

SpecTranslator == InitTranslator /\ [][NextTranslator]_vars

(***************************************************************************)
(* CGLSProductAccessor.download on its own: an accessor is constructed, a  *)
(* mirror and a target directory hold the data file or not, and download   *)
(* is called, again after it ended.  The process can be killed wherever    *)
(* download is between two lines; the files stay as they are.              *)
(***************************************************************************)
InitDownload ==
    /\ at_rest
    /\ \E adv \in BOOLEAN, m \in {None, <<"mirror">>}, ro \in BOOLEAN,
          sd \in {None, <<"scratch">>},
          tl \in {None, <<"target">>, <<"mirror">>}, rml \in BOOLEAN,
          held \in SUBSET {<<"mirror", datafile>>, <<"target", datafile>>} :
            args = [kind |-> "download",
                    held |-> held,
                    advertised |-> adv,
                    mirror |-> m,
                    mirror_is_readonly |-> ro,
                    scratch_dir |-> sd,
                    target_location |-> tl,
                    return_mirror_location |-> rml]
    /\ returned = <<>>
    /\ files = [path \in AllPaths |-> IF path \in args.held THEN "complete" ELSE "absent"]
    /\ \E everywhere \in BOOLEAN :
            subdirs = IF everywhere THEN Directories
                      ELSE {path[1] : path \in args.held}
    /\ at = "idle"

\* download comes to a yield or a raise
Yield(line, value) ==
    /\ at' = line
    /\ returned' = <<[op |-> "download", value |-> value]>>

\* download from the call to the request, a yield or a raise (lines 77-120)
download_call ==
    /\ args.kind = "download"
    /\ at \in {"idle", "returned", "raised", "killed"}
    /\ LET m == mirrorfile(args)
           t == targetfile(args)
       IN  IF ~args.advertised
           THEN Yield("yield_79", None)
           ELSE IF t = AttributeError
           THEN Yield("raised", AttributeError)
           ELSE IF exists(files, t)
           THEN Yield("yield_99", t)
           ELSE IF m # None /\ exists(files, m)
           THEN IF ~args.return_mirror_location /\ m # t
                THEN at' = "copy_103" /\ returned' = <<>>
                ELSE Yield("yield_110", m)
           ELSE IF (m = None \/ mirror_is_readonly(args)) /\ m = t
           THEN Yield("raised", RuntimeError)
           ELSE at' = "request" /\ returned' = <<>>
    /\ UNCHANGED <<rest_vars, args, files, subdirs>>

\* session.get has answered and the subdirectory of the download file is
\* made (lines 121-126)
download_request ==
    /\ at = "request"
    /\ at' = "open"
    /\ subdirs' = subdirs \cup {downloadfile(args)[1]}
    /\ UNCHANGED <<rest_vars, args, returned, files>>

\* the download file is opened for writing (line 127)
download_open ==
    /\ at = "open"
    /\ at' = "transfer"
    /\ files' = [files EXCEPT ![downloadfile(args)] = "partial"]
    /\ UNCHANGED <<rest_vars, args, returned, subdirs>>

\* the chunks are written and the download file is closed (lines 128-132)
download_transfer ==
    /\ at = "transfer"
    /\ at' = "transferred"
    /\ files' = [files EXCEPT ![downloadfile(args)] = "complete"]
    /\ UNCHANGED <<rest_vars, args, returned, subdirs>>

\* session.get raises, before there is a download file (line 121), or the
\* stream does, into the open download file (line 128)
download_fails ==
    /\ at \in {"request", "transfer"}
    /\ Yield("raised", ConnectionError)
    /\ UNCHANGED <<rest_vars, args, files, subdirs>>

\* shutil.move of the download file to its final name (lines 133-134, 146)
download_move ==
    /\ at = "transferred"
    /\ LET m == mirrorfile(args)
           t == targetfile(args)
           d == downloadfile(args)
       IN  IF m # None /\ ~mirror_is_readonly(args)
           THEN /\ files' = [files EXCEPT ![d] = "absent", ![m] = "complete"]
                /\ IF ~args.return_mirror_location /\ m # t
                   THEN at' = "copy_136" /\ UNCHANGED returned
                   ELSE Yield("yield_143", m)
           ELSE /\ files' = [files EXCEPT ![d] = "absent", ![t] = "complete"]
                /\ Yield("yield_148", t)
    /\ UNCHANGED <<rest_vars, args, subdirs>>

\* shutil.copy(mirrorfile, targetfile) opens the target file and writes
\* (lines 103, 136); nothing has made the subdirectory of the target file,
\* and without it the open raises
download_copy ==
    /\ at \in {"copy_103", "copy_136"}
    /\ IF targetfile(args)[1] \in subdirs
       THEN /\ at' = IF at = "copy_103" THEN "copying_103" ELSE "copying_136"
            /\ files' = [files EXCEPT ![targetfile(args)] = "partial"]
            /\ UNCHANGED returned
       ELSE /\ Yield("raised", FileNotFoundError)
            /\ UNCHANGED files
    /\ UNCHANGED <<rest_vars, args, subdirs>>

\* shutil.copy has written all the mirror file holds
download_copied ==
    /\ at \in {"copying_103", "copying_136"}
    /\ Yield(IF at = "copying_103" THEN "yield_105" ELSE "yield_138", targetfile(args))
    /\ files' = [files EXCEPT ![targetfile(args)] = files[mirrorfile(args)]]
    /\ UNCHANGED <<rest_vars, args, subdirs>>

\* the with block of the caller ends: the return after the yield, and the
\* finally of the yields that have one
download_exit ==
    /\ at \in Yields
    /\ at' = "returned"
    /\ files' = IF at \in YieldsInTry /\ args.target_location = None
                THEN [files EXCEPT ![targetfile(args)] = "absent"]
                ELSE files
    /\ UNCHANGED <<rest_vars, args, returned, subdirs>>

\* the process is killed
kill ==
    /\ at \notin {"idle", "returned", "raised", "killed"}
    /\ at' = "killed"
    /\ returned' = <<>>
    /\ UNCHANGED <<rest_vars, args, files, subdirs>>

NextDownload ==
    \/ download_call
    \/ download_request
    \/ download_open
    \/ download_transfer
    \/ download_fails
    \/ download_move
    \/ download_copy
    \/ download_copied
    \/ download_exit
    \/ kill

SpecDownload == InitDownload /\ [][NextDownload]_vars

(***************************************************************************)
(* Properties.                                                             *)
(***************************************************************************)
\* all four coordinates equal once each is rounded to 8 decimals
same_at_8_decimals(a, b, up) == \A k \in 1..4 : Round8(a[k], up) = Round8(b[k], up)

\* the dekads from the one of begin_date to the one of end_date
RangeDekads ==
    {d \in ManifestDekads :
        /\ ~greater_than(DekadFromDate(begin_date), d)
        /\ ~greater_than(d, DekadFromDate(end_date))}

Advertises(i, d) == d \in products[i].adv

\* product i is the first registered product that advertises d
FirstToAdvertise(i, d) ==
    Advertises(i, d) /\ \A j \in 1..(i - 1) : ~Advertises(j, d)

Written == {k \in 1..Len(steps) : steps[k].what = "written"}

\* C1: whenever prepare returns True, every translator it folded in realigns
\* the stored aligned AOI to the same box: aois_are_equal says so, and the
\* two boxes do not differ at 8 decimals.
C1_AlignedAoiAgrees ==
    pc = "prepared" =>
        \A k \in 1..Len(translators) :
            LET again == get_aligned_aoi(translators[k], aligned_aoi)
            IN  /\ Len(again) = 4
                /\ aois_are_equal(again, aligned_aoi, NoHalves)
                /\ same_at_8_decimals(again, aligned_aoi, NoHalves)

\* C2: every product ingest picked for a dekad advertises the dekad, and no
\* product registered before it does (first come, first served).
C2_FirstComeFirstServed ==
    \A k \in 1..Len(steps) :
        steps[k].product # 0 => FirstToAdvertise(steps[k].product, steps[k].dekad)

C2_Witness ==
    /\ Len(products) = 2
    /\ \E k \in Written :
        /\ steps[k].product = 1
        /\ Advertises(2, steps[k].dekad)
    /\ \E k \in Written : steps[k].product = 2

\* C3: a step that yields no output is the last thing ingest does in the
\* run, and the steps of a run are the consecutive dekads from the one of
\* begin_date: before every step written, each earlier dekad of the range
\* was written in this run or skipped because its output existed.
C3_NoGap ==
    \A k \in 1..Len(steps) :
        /\ steps[k].dekad = add(DekadFromDate(begin_date), k - 1)
        /\ k < Len(steps) => steps[k].what \in {"written", "skipped"}

C3_Witness ==
    /\ pc = "ended"
    /\ Len(steps) = 2
    /\ steps[1].what = "written"
    /\ steps[2].what = "no output"
    /\ ~ends_after(add(steps[2].dekad, 1), DekadFromDate(end_date))

\* C4: a step whose raster is on disk from an earlier run is skipped: it is
\* not downloaded, translated or written again.
C4_RerunSkipsWhatExists ==
    \A k \in 1..Len(steps) : steps[k].existed => steps[k].what = "skipped"

\* no translator's alignment of the requested AOI is reproduced by all
NoCommonAoi(trs) ==
    \A s \in 1..Len(trs) :
        LET candidate == get_aligned_aoi(trs[s], target_aoi)
        IN  \/ Len(candidate) # 4
            \/ \E i \in 1..Len(trs) :
                LET again == get_aligned_aoi(trs[i], candidate)
                IN  Len(again) # 4 \/ ~same_at_8_decimals(again, candidate, NoHalves)

\* C5: when the grids folded in share no AOI, prepare returns False, the
\* caller ends the run and nothing is written; and nothing is ever written
\* while the aligned AOI is unset.
C5_NoAoiFailsCleanly ==
    /\ (pc \in {"prepared", "ingest", "ended"} /\ translators # <<>>
            /\ NoCommonAoi(translators))
        => (result = "prepare_false" /\ error = RuntimeError /\ Written = {})
    /\ aligned_aoi = None => Written = {}

\* the dekads the run came to, in the search of prepare or in ingest
Reached ==
    {walked[k] : k \in 1..Len(walked)} \cup {steps[k].dekad : k \in 1..Len(steps)}

\* C6: a run that comes to a dekad of its range that no product advertises
\* ends with a reported error: prepare returned False, or prepare or ingest
\* raised. It never ends as a normal return.
C6_UncoveredDekadIsFatal ==
    (pc = "ended" /\ \E d \in RangeDekads \cap Reached :
                        \A i \in 1..Len(products) : ~Advertises(i, d))
        => result \in {"prepare_false", "prepare_raised", "ingest_raised"}

\* C7: the first-hit search walks the dekads upward from the one of
\* begin_date and never past the one of end_date; the hit recorded for a
\* product is the earliest walked dekad it is the first to advertise (so a
\* hit is never replaced); and the walk goes on only while a product has no
\* hit.
C7_FirstHits ==
    /\ \A k \in 1..Len(walked) :
        /\ walked[k] = add(DekadFromDate(begin_date), k - 1)
        /\ ~ends_after(walked[k], DekadFromDate(end_date))
    /\ \A h \in 1..Len(product_first_hit) :
        LET i == product_first_hit[h][1]
            d == product_first_hit[h][2]
        IN  /\ \E k \in 1..Len(walked) :
                /\ walked[k] = d
                /\ FirstToAdvertise(i, d)
                /\ \A j \in 1..(k - 1) : ~FirstToAdvertise(i, walked[j])
            /\ \A g \in 1..Len(product_first_hit) :
                product_first_hit[g][1] = i => g = h
    /\ (pc = "search" /\ walked # <<>>) => Len(product_first_hit) < Len(products)

C7_Witness ==
    /\ pc = "reconcile"
    /\ Len(walked) = 3
    /\ product_first_hit = <<<<1, walked[1]>>, <<2, walked[3]>>>>
    /\ Advertises(2, walked[1])
    /\ Advertises(1, walked[2])

\* C8: translate never lets an exception out: a failure inside it shows as
\* no result for the step.
C8_TranslateNeverRaises ==
    \A k \in 1..Len(steps) : steps[k].what # "translate raised"

\* the valid pixels of the block of output pixel rc, by the valid_range
ValidCells(rc) ==
    {x \in block_cells(rc[1], rc[2], factor_of(block)) :
        block.valid_range[1] <= block.da[x] /\ block.da[x] <= block.valid_range[2]}

\* C9: an output pixel whose block holds at least 5 valid pixels is an
\* integer nearest to the mean of the valid pixels: it is off the mean by at
\* most a half.
C9_MeanOfValidPixels ==
    coarse # None =>
        \A rc \in DOMAIN coarse[1] :
            LET n == Cardinality(ValidCells(rc))
                total == SumOver(block.da, ValidCells(rc))
            IN  n >= 5 => 2 * Abs((n * coarse[1][rc]) - total) <= n

C9_Witness ==
    /\ coarse # None
    /\ factor_of(block) = 3
    /\ Cardinality(ValidCells(<<1, 1>>)) = 6
    /\ SumOver(block.da, ValidCells(<<1, 1>>)) = 15
    /\ coarse[1][<<1, 1>>] = 2

\* C10: an output pixel whose block holds fewer than 5 valid pixels is the
\* fill value, whatever the ratio.
C10_FillBelowFive ==
    coarse # None =>
        \A rc \in DOMAIN coarse[1] :
            Cardinality(ValidCells(rc)) < 5 => coarse[1][rc] = block.fill

C10_Witness ==
    /\ coarse # None
    /\ factor_of(block) = 3
    /\ Cardinality(ValidCells(<<1, 1>>)) = 4
    /\ coarse[1][<<1, 1>>] = 255

\* the first call made was op
Called(op) == Len(returned) >= 1 /\ returned[1].op = op

\* the second call made was op, on what the call on returned
CalledThen(on, op) == Len(returned) = 2 /\ returned[1].op = on /\ returned[2].op = op

\* C11: Dekad(Y,S).add(36) and next_year are Dekad(Y+1,S); add(-36) and
\* prev_year are Dekad(Y-1,S), for every S in 1..36.
C11_YearSteps ==
    /\ (Called("add") /\ args.n = 36) =>
            returned[1].value = [year |-> args.self.year + 1, seqno |-> args.self.seqno]
    /\ (Called("add") /\ args.n = -36) =>
            returned[1].value = [year |-> args.self.year - 1, seqno |-> args.self.seqno]
    /\ Called("next_year") =>
            returned[1].value = [year |-> args.self.year + 1, seqno |-> args.self.seqno]
    /\ Called("prev_year") =>
            returned[1].value = [year |-> args.self.year - 1, seqno |-> args.self.seqno]

C11_Witness ==
    /\ Called("next_year")
    /\ args.self.seqno = 36
    /\ returned[1].value = [year |-> args.self.year + 1, seqno |-> 36]

\* C12: add(n) returns a Dekad with seqno in 1..36 whose flat index
\* year*36+seqno is that of the receiver plus n, for n of either sign and
\* across year boundaries.
C12_AddFlatIndex ==
    Called("add") =>
        /\ returned[1].value.seqno \in 1..36
        /\ (returned[1].value.year * 36) + returned[1].value.seqno
                = (args.self.year * 36) + args.self.seqno + args.n

C12_Witness ==
    /\ Called("add")
    /\ args.n < 0
    /\ returned[1].value.year = args.self.year - 1
    /\ returned[1].value.seqno = 36

\* the month and the day of sequence number s
MonthDayOf(s) == <<((s - 1) \div 3) + 1, (((s - 1) % 3) * 10) + 1>>

\* C13: month is ((S-1)//3)+1, in 1..12, day is (((S-1)%3)*10)+1, one of 1,
\* 11, 21; and d + n has the month and day of sequence number S+n (taken
\* within the year it falls in).
C13_MonthAndDay ==
    /\ Called("month_day") =>
        /\ returned[1].value = MonthDayOf(args.self.seqno)
        /\ returned[1].value[1] \in 1..12
        /\ returned[1].value[2] \in {1, 11, 21}
    /\ CalledThen("add", "month_day") =>
        returned[2].value = MonthDayOf(((args.self.seqno + args.n - 1) % 36) + 1)

C13_Witness ==
    /\ CalledThen("add", "month_day")
    /\ args.self = [year |-> 2023, seqno |-> 2]
    /\ args.n = 2
    /\ returned[2].value = <<2, 1>>

\* C14: Dekad(date) has the year of the date and seqno (month-1)*3 +
\* min(2, (day-1)//10) + 1, in 1..36; its month is the date's and its day is
\* the largest of 1, 11, 21 not after the date's day.
C14_DekadOfDate ==
    /\ Called("Dekad") =>
        /\ returned[1].value.year = args.date.year
        /\ returned[1].value.seqno =
                ((args.date.month - 1) * 3)
                + (IF (args.date.day - 1) \div 10 < 2 THEN (args.date.day - 1) \div 10 ELSE 2)
                + 1
        /\ returned[1].value.seqno \in 1..36
    /\ CalledThen("Dekad", "month_day") =>
        /\ returned[2].value[1] = args.date.month
        /\ returned[2].value[2] \in {1, 11, 21}
        /\ returned[2].value[2] <= args.date.day
        /\ \A d \in {1, 11, 21} : d <= args.date.day => d <= returned[2].value[2]

C14_Witness ==
    /\ CalledThen("Dekad", "month_day")
    /\ args.date.day = 31
    /\ returned[2].value = <<args.date.month, 21>>

\* C15: the Dekad constructed from d.get_slice_start() has the year and the
\* seqno of d.
C15_RoundTrip ==
    CalledThen("get_slice_start", "Dekad") =>
        /\ returned[2].value.year = args.self.year
        /\ returned[2].value.seqno = args.self.seqno

C15_Witness ==
    /\ CalledThen("get_slice_start", "Dekad")
    /\ args.self.seqno = 36
    /\ returned[1].value.month = 12
    /\ returned[1].value.day = 21
    /\ returned[2].value = args.self

\* C16: d.add(1).greater_than(d) is true, also when d is dekad 36.
C16_SuccessorIsGreater ==
    (CalledThen("add", "greater_than") /\ args.n = 1) => returned[2].value

C16_Witness ==
    /\ CalledThen("add", "greater_than")
    /\ args.n = 1
    /\ args.self.seqno = 36
    /\ returned[1].value.seqno = 1
    /\ returned[2].value

\* C17: d.diff(d.add(n)) is -n, for n of either sign and across years.
C17_DiffOfAdd ==
    CalledThen("add", "diff") => returned[2].value = 0 - args.n

C17_Witness ==
    /\ CalledThen("add", "diff")
    /\ args.n < 0
    /\ returned[1].value.year < args.self.year
    /\ returned[2].value = 0 - args.n

\* C18: of a.greater_than(b), b.greater_than(a) and a.equals(b) exactly one
\* is true, and a.equals(b) is true exactly when a and b have the same year
\* and the same seqno.
C18_TotalOrder ==
    Called("compare") =>
        LET v == returned[1].value
        IN  /\ v.greater \/ v.less \/ v.equals
            /\ ~(v.greater /\ v.less)
            /\ ~(v.greater /\ v.equals)
            /\ ~(v.less /\ v.equals)
            /\ v.equals <=> (args.self.year = args.other.year
                                /\ args.self.seqno = args.other.seqno)

\* C19: aois_are_equal(a, b) is true exactly when every coordinate of a,
\* rounded to 8 decimals, equals that coordinate of b rounded to 8 decimals.
C19_EqualAtEightDecimals ==
    Called("aois_are_equal") =>
        (returned[1].value.forth <=>
            same_at_8_decimals(args.the_one, args.the_other, args.up))

\* C20: aois_are_equal(a, a) is true for every AOI a, and aois_are_equal(a, b)
\* is aois_are_equal(b, a).
C20_ReflexiveSymmetric ==
    Called("aois_are_equal") =>
        /\ returned[1].value.self
        /\ returned[1].value.forth <=> returned[1].value.back

\* C21: while exactly one grid has been folded in, the reconciled AOI is
\* that grid's own get_aligned_aoi(target_aoi); and prepare with a single
\* contributing product does not fail once its grid is folded in, for every
\* requested AOI the grid accepts.
C21_SingleGrid ==
    Len(translators) = 1 =>
        LET own == get_aligned_aoi(translators[1], target_aoi)
        IN  /\ result \notin {"prepare_false", "prepare_raised"} => aligned_aoi = own
            /\ (Len(product_first_hit) = 1 /\ own \notin Exceptions)
                    => result \notin {"prepare_false", "prepare_raised"}

C21_Witness ==
    /\ pc = "prepared"
    /\ Len(products) = 1
    /\ Len(translators) = 1
    /\ aligned_aoi # target_aoi
    /\ aligned_aoi = get_aligned_aoi(translators[1], target_aoi)

\* the grid of the translator the factory returned, and the AOI it was given
TheGrid == GridOf(returned[1].value.grid)

Aligned == returned[2].value

\* C22: get_aligned_aoi of either translator fails with an error, and gives
\* no clamped AOI, when min-lon > max-lon, or max-lat < min-lat, or a
\* coordinate lies outside [lons[0], lons[-1]] or [lats[-1], lats[0]].
C22_RejectsBadAoi ==
    CalledThen("get_translator", "get_aligned_aoi") =>
        LET lons == TheGrid.lons
            lats == TheGrid.lats
            a == args.my_ext
            outside_lon(x) == x < lons[1] \/ x > lons[Len(lons)]
            outside_lat(y) == y < lats[Len(lats)] \/ y > lats[1]
        IN  (\/ a[1] > a[3]
             \/ a[2] < a[4]
             \/ outside_lon(a[1]) \/ outside_lon(a[3])
             \/ outside_lat(a[2]) \/ outside_lat(a[4]))
                => Aligned = AssertionError

\* an AOI in the right order with one corner off the grid was refused by the
\* resampling translator
C22_Witness ==
    /\ CalledThen("get_translator", "get_aligned_aoi")
    /\ returned[1].value.class = "CGLSResamplingTranslator"
    /\ args.my_ext[1] <= args.my_ext[3]
    /\ args.my_ext[2] >= args.my_ext[4]
    /\ args.my_ext[3] > TheGrid.lons[Len(TheGrid.lons)]
    /\ Aligned = AssertionError

\* C23: get_translator raises and constructs nothing whenever the native
\* pixels per degree are not an exact multiple of the target's (native 112,
\* target 336); what it constructs has native % target = 0.
C23_WholeRatioOnly ==
    Called("get_translator") =>
        LET native == resolution_pixel_per_degree[args.product.resolution]
            target == resolution_pixel_per_degree[args.target_resolution]
            t == returned[1].value
        IN  /\ (\A f \in 1..native : native # f * target) => t.class = "RuntimeError"
            /\ t.class # "RuntimeError" =>
                    /\ t.native_resolution = native
                    /\ t.target_resolution = target
                    /\ t.native_resolution % t.target_resolution = 0

C23_Witness ==
    /\ Called("get_translator")
    /\ resolution_pixel_per_degree[args.product.resolution] = 112
    /\ resolution_pixel_per_degree[args.target_resolution] = 336
    /\ returned[1].value.class = "RuntimeError"

\* array[i] is nearer to c than array[j], as the doubles have it: higher
\* holds the values half way between two elements that the doubles put
\* nearer to the one of higher index
Nearer(array, i, j, c, higher) ==
    \/ Abs(array[i] - c) < Abs(array[j] - c)
    \/ Abs(array[i] - c) = Abs(array[j] - c) /\ i > j /\ c \in higher

\* no element of array is nearer to c than array[j], and array[j] is nearer
\* than every element before it
IsNearestFirst(array, j, c, higher) ==
    \A i \in DOMAIN array :
        /\ ~Nearer(array, i, j, c, higher)
        /\ i < j => Nearer(array, j, i, c, higher)

\* the index of the element of array nearest to c, the lowest index of
\* those equally near; the neighbours of an element are looked at first
NearestFirst(array, c, higher) ==
    CHOOSE j \in DOMAIN array :
        /\ j > 1 => Nearer(array, j, j - 1, c, higher)
        /\ j < Len(array) => ~Nearer(array, j + 1, j, c, higher)
        /\ IsNearestFirst(array, j, c, higher)

\* the axis a coordinate of an AOI belongs to: longitude, latitude,
\* longitude, latitude
AxisOf(grid, k) == IF k \in {1, 3} THEN grid.lons ELSE grid.lats

\* C27: CGLSTranslator.get_aligned_aoi replaces each coordinate by the axis
\* value with the smallest absolute difference to it, and a coordinate
\* exactly half way between two axis values by the one of lower index; the
\* result is a member of the axis.
C27_NearestAxisValue ==
    (/\ CalledThen("get_translator", "get_aligned_aoi")
     /\ returned[1].value.class = "CGLSTranslator"
     /\ Aligned # AssertionError)
        => \A k \in 1..4 :
                LET axis == AxisOf(TheGrid, k)
                IN  /\ \E i \in DOMAIN axis : axis[i] = Aligned[k]
                    /\ Aligned[k] = axis[NearestFirst(axis, args.my_ext[k], {})]

\* of two pixel centres equally near, the one of lower index was taken: the
\* lower longitude and the higher latitude
C27_Witness ==
    /\ CalledThen("get_translator", "get_aligned_aoi")
    /\ returned[1].value.class = "CGLSTranslator"
    /\ Aligned # AssertionError
    /\ \E i \in 1..(Len(TheGrid.lons) - 1) :
            /\ 2 * args.my_ext[1] = TheGrid.lons[i] + TheGrid.lons[i + 1]
            /\ Aligned[1] = TheGrid.lons[i]
    /\ \E i \in 1..(Len(TheGrid.lats) - 1) :
            /\ 2 * args.my_ext[2] = TheGrid.lats[i] + TheGrid.lats[i + 1]
            /\ Aligned[2] = TheGrid.lats[i]

\* the virtual target axis: from the geotransform origin in steps of
\* sign(native pixel size) / target pixels per degree, as far as the native
\* axis reaches
VirtualAxis(grid, t, k) ==
    LET origin == IF k \in {1, 3} THEN grid.gt[1] ELSE grid.gt[4]
        size == IF k \in {1, 3} THEN grid.gt[2] ELSE grid.gt[6]
        cells == IF k \in {1, 3} THEN grid.shape[2] ELSE grid.shape[1]
        step == UnitsPerDegree \div t.target_resolution
        reach == cells * (UnitsPerDegree \div t.native_resolution)
        count == (reach + step - 1) \div step
    IN  [j \in 1..count |-> origin + sign(size) * (j - 1) * step]

\* C28: CGLSResamplingTranslator.get_aligned_aoi gives, for each coordinate,
\* the native-axis value nearest to the virtual target-axis point nearest to
\* the coordinate; the result is a member of the native axis.
C28_NearestViaTargetAxis ==
    (/\ CalledThen("get_translator", "get_aligned_aoi")
     /\ returned[1].value.class = "CGLSResamplingTranslator"
     /\ Aligned # AssertionError)
        => \A k \in 1..4 :
                LET axis == AxisOf(TheGrid, k)
                    virtual == VirtualAxis(TheGrid, returned[1].value, k)
                    fp == args.fp
                    point == virtual[NearestFirst(virtual, args.my_ext[k],
                                                  IF k \in {1, 3} THEN fp.lon_target
                                                  ELSE fp.lat_target)]
                IN  /\ \E i \in DOMAIN axis : axis[i] = Aligned[k]
                    /\ Aligned[k] = axis[NearestFirst(axis, point,
                                                       IF k \in {1, 3} THEN fp.lons
                                                       ELSE fp.lats)]

\* a coordinate was moved to another pixel centre than the nearest native one
C28_Witness ==
    /\ CalledThen("get_translator", "get_aligned_aoi")
    /\ returned[1].value.class = "CGLSResamplingTranslator"
    /\ Aligned # AssertionError
    /\ Aligned[1] # TheGrid.lons[NearestFirst(TheGrid.lons, args.my_ext[1], args.fp.lons)]

\* C25: at every point of download, a kill included, a file under a final
\* name, in the target, mirror or scratch directory, holds all of the data:
\* parts are written under the .coardasdl name only.
C25_FinalNameOnlyComplete ==
    args.kind = "download" =>
        \A dir \in Directories : files[<<dir, datafile>>] # "partial"

\* C26: with a read-only mirror, or none, download leaves every file of the
\* mirror as it was; when the read-only mirror is the only place for a data
\* file it does not hold, download raises before any transfer; in every other
\* case it raises nothing of its own and the file it downloaded is in the
\* target or the scratch directory.
C26_ReadOnlyMirrorUntouched ==
    (args.kind = "download" /\ mirror_is_readonly(args)) =>
        LET m == mirrorfile(args)
            t == targetfile(args)
            only_the_mirror == m # None /\ t = m
        IN  /\ args.mirror # None =>
                /\ files[<<"mirror", coardasdl>>] = "absent"
                /\ files[m] = IF m \in args.held THEN "complete" ELSE "absent"
            /\ (only_the_mirror /\ args.advertised /\ ~exists(files, m)) =>
                /\ at \in {"idle", "raised"}
                /\ at = "raised" => returned[1].value = RuntimeError
                /\ \A dir \in Directories : files[<<dir, coardasdl>>] = "absent"
            /\ (~only_the_mirror /\ at = "raised" /\ ~(m # None /\ exists(files, m))) =>
                    returned[1].value = ConnectionError
            /\ at = "yield_148" =>
                /\ returned[1].value =
                        joinpath(IF args.target_location # None
                                 THEN args.target_location ELSE args.scratch_dir,
                                 datafile)
                /\ files[returned[1].value] = "complete"

\* C24: after prepare has returned True, the translator of every product
\* ingest selects for a dekad of the range realigns the aligned AOI to itself
\* (aois_are_equal says so), and no step of ingest ends in the failure of
\* that assertion.
C24_AssertionNeverFails ==
    /\ pc = "prepared" =>
            \A i \in 1..Len(products), d \in RangeDekads :
                FirstToAdvertise(i, d) =>
                    ingest_assertion(get_translator(products[i], target_resolution),
                                     aligned_aoi)
    /\ \A k \in 1..Len(steps) : steps[k].what # "assertion failed"

\* every step ingest has taken in this run had its output: written now, or
\* there already
Productive == \A k \in 1..Len(steps) : steps[k].what \in {"written", "skipped"}

\* the k-th dekad ingest visits is the k-th dekad from the one of begin_date,
\* none lies after the one of end_date, the cursor stands behind the last one
\* visited, and a run that came to its end visited the dekad of end_date last
VisitsInOrder ==
    (~DtGreater(begin_date, end_date) /\ Productive) =>
        /\ \A k \in 1..Len(steps) :
                /\ steps[k].dekad = add(DekadFromDate(begin_date), k - 1)
                /\ ~greater_than(steps[k].dekad, DekadFromDate(end_date))
        /\ pc = "ingest" => cursor = add(DekadFromDate(begin_date), Len(steps))
        /\ result \in {"ingest_done", "ingest_stopped", "ingest_raised"} =>
                /\ result = "ingest_done"
                /\ Len(steps) = diff(DekadFromDate(end_date), DekadFromDate(begin_date)) + 1
                /\ steps[Len(steps)].dekad = DekadFromDate(end_date)

\* a pass of the loop of ingest that has its output visits one more dekad,
\* or ends the run and visits none
VisitsOrEnds ==
    (pc = "ingest" /\ Productive') =>
        \/ pc' = "ended" /\ steps' = steps
        \/ pc' = "ingest" /\ Len(steps') = Len(steps) + 1

\* C29: for begin_date not after end_date and every step of ingest having
\* its output, ingest visits each dekad from the one of begin_date to the
\* one of end_date once, in ascending order, and none after it; and it
\* terminates: every pass visits the next dekad or ends the run.
C29_VisitsTheRangeOnce == [] VisitsInOrder /\ [][VisitsOrEnds]_vars

\* a run over three dekads that cross the end of the year
C29_Witness ==
    /\ result = "ingest_done"
    /\ Productive
    /\ Len(steps) = 3
    /\ steps[1].dekad.year < steps[3].dekad.year
    /\ steps[3].dekad = DekadFromDate(end_date)

\* product i has a first hit, and the translator made for it at that hit is
\* one of those the aligned AOI was reconciled over
FoldedIn(i) ==
    \E h \in 1..Len(product_first_hit) :
        /\ product_first_hit[h][1] = i
        /\ h <= Len(translators)
        /\ translators[h] = get_translator(products[i], target_resolution)

\* prepare has returned True in this run
Prepared ==
    \/ pc \in {"prepared", "ingest"}
    \/ pc = "ended" /\ result \in {"ingest_raised", "ingest_stopped", "ingest_done"}

\* C30: whenever prepare returned True, the first product to advertise a
\* dekad of the range has a first hit and its grid was folded into the
\* reconciliation; every product ingest picked is such a product.
C30_SelectedWereFolded ==
    Prepared =>
        /\ \A i \in 1..Len(products), d \in RangeDekads :
                FirstToAdvertise(i, d) => FoldedIn(i)
        /\ \A k \in 1..Len(steps) : steps[k].product # 0 => FoldedIn(steps[k].product)

\* ingest wrote a dekad with the second product, whose first hit came after
\* the first product's
C30_Witness ==
    /\ Len(products) = 2
    /\ Len(translators) = 2
    /\ product_first_hit[1][1] = 1
    /\ greater_than(product_first_hit[2][2], product_first_hit[1][2])
    /\ \E k \in Written : steps[k].product = 2

====
